---- MODULE Spec2Model ----
(***************************************************************************)
(* Model of wyn_voice/chat.py: the ChatBot conversation history and the    *)
(* AudioProcessor pipeline (record -> transcribe -> generate -> synthesize *)
(* -> play) with its two reduced entry points.  One caller drives one      *)
(* session; every external collaborator call either returns or raises.     *)
(***************************************************************************)
EXTENDS Integers, Sequences, FiniteSets, TLC

\* ---------------------------------------------------------------- bounds
MaxCalls == 3          \* entry-point calls made on one session
MaxSec == 4            \* largest duration (seconds) a caller asks for
MaxRounds == 2         \* pairs of overlapping generate_response calls

\* ------------------------------------------------------ program constants
DefaultSec == 3        \* record_audio(self, sec: int = 3)
MsPerSec == 1000       \* 'record(%d)' % (sec * 1000)

Protocol == "You are a helpful assistant"
AudioPath == "audio.wav"
SpeechPath == "output.mp3"
Voice == "alloy"

\* ------------------------------------------------------------ input sets
Texts == {"Hello", "Bye"}          \* user prompts / transcripts
Replies == {"Hi there", "Sure"}    \* completion results
Clips == {"clip1"}                 \* base64 payloads of a capture
Durations == 1..MaxSec

None == "none"
NoBytes == <<>>

\* ---------------------------------------------------------------- state
VARIABLES
  history,          \* ChatBot.history
  pc,               \* position of the running call ("Idle" when none runs)
  op,               \* entry point of the running (or last) call
  outcome,          \* "none" | "returned" | "raised" for the last call
  failedAt,         \* collaborator whose failure ended the last call
  ret,              \* value returned by the last call
  hist0,            \* history when the running (or last) call was entered
  durationSeconds,  \* duration the caller of a full turn asked for
  sec,              \* record_audio's sec parameter
  captureMs,        \* argument of record(...) handed to the recorder
  clip,             \* bytes decoded from the capture of this call
  transcript,       \* transcript.text
  prompt,           \* generate_response's prompt parameter
  bot_answer,       \* response / bot_answer
  text,             \* input= of audio.speech.create
  autoplay,         \* play_it flag handed to play_audio
  speech,           \* bytes returned by audio.speech.create in this call
  disk,             \* files on local storage: path -> content
  played,           \* <<path, autoplay>> of the last play_audio
  calls,            \* collaborators invoked by the running (or last) call
  sentMessages,     \* messages= of the last chat.completions.create
  visited,          \* pipeline states entered by the running (or last) call
  nCalls,           \* entry-point calls made so far
  turnsOk,          \* generate / full-pipeline calls that returned
  turnsFailed,      \* generate / full-pipeline calls that raised
  completionsOk,    \* chat.completions.create calls that returned
  completionsFailed,\* chat.completions.create calls that raised
  held,             \* the caller holds the list get_history returned
  gen,              \* the two overlapping generate_response calls, per thread
  rounds            \* pairs of overlapping calls started so far

vars == <<history, pc, op, outcome, failedAt, ret, hist0, durationSeconds,
          sec, captureMs, clip, transcript, prompt, bot_answer, text,
          autoplay, speech, disk, played, calls,
          sentMessages, visited, nCalls, turnsOk, turnsFailed,
          completionsOk, completionsFailed, held, gen, rounds>>

conc == <<gen, rounds>>

files == <<disk, played>>

\* content of the file at path p (nothing when there is no such file)
FileContent(p) == IF p \in DOMAIN disk THEN disk[p] ELSE NoBytes

\* open(p, 'wb').write(c) / write_to_file(p): creates or overwrites
WriteFile(d, p, c) == [q \in DOMAIN d \cup {p} |-> IF q = p THEN c ELSE d[q]]

audio_wav == FileContent(AudioPath)
output_mp3 == FileContent(SpeechPath)
counters == <<nCalls, turnsOk, turnsFailed>>

\* -------------------------------------------------------------- helpers
Message(r, c) == [role |-> r, content |-> c]

\* self.history = [{"role": "system", "content": self.protocol}]
InitialHistory(protocol) == << Message("system", protocol) >>

\* faulty variants of the two appends and of the messages argument
WithUser_AtFront(h, p) == << Message("user", p) >> \o h
WithUser_Twice(h, p) == Append(Append(h, Message("user", p)), Message("user", p))
WithUser_Dropped(h, p) == h
WithAssistant_AsUser(h, r) == Append(h, Message("user", r))
WithAssistant_Dropped(h, r) == h
WithAssistant_Overwrites(h, r) == [h EXCEPT ![Len(h)] = Message("assistant", r)]
CompletionMessages_Windowed(h) == SubSeq(h, Len(h) - 1, Len(h))
RecordArg_Seconds(s) == s

\* self.history.append({"role": "user", "content": prompt})
WithUser(h, p) == Append(h, Message("user", p))

\* self.history.append({"role": "assistant", "content": response})
WithAssistant(h, r) == Append(h, Message("assistant", r))

\* messages=self.history
CompletionMessages(h) == h

\* 'record(%d)' % (sec * 1000)
RecordArg(s) == s * MsPerSec

\* audio_file = self.record_audio()   (no argument: the default applies)
TurnSec == DefaultSec

\* b64decode(s.split(',')[1]) of the data URL the recorder resolves with
DataUrl(c) == << "data:audio/webm;base64", c >>
DecodeCapture(s) == << "pcm", s[2] >>

\* audio.speech.create(model="tts-1", voice="alloy", input=t)
Synthesize(t) == << Voice, t >>

\* threads that may call generate_response on the same ChatBot at once
Threads == {1, 2}

\* a thread that is not inside generate_response
IdleCall == [pc |-> "idle", prompt |-> None, reply |-> None, userAt |-> 0, asstAt |-> 0]

\* the pipeline state a program position belongs to
State(p) ==
  CASE p = "Idle" -> "Idle"
    [] p = "record" -> "Recording"
    [] p = "transcribe" -> "Transcribing"
    [] p \in {"append_user", "complete"} -> "Generating"
    [] p \in {"synthesize", "write"} -> "Synthesizing"
    [] p = "play" -> "Playing"

Visit(v, from, to) == IF State(to) = State(from) THEN v ELSE Append(v, State(to))

IsTurn(o) == o \in {"generate_response", "process_audio_and_generate_response"}

\* faulty variants of the two continuations
AfterTranscribe_Always(o) == "append_user"
AfterComplete_SkipsSynthesis(o) == IF o = "generate_response" THEN "Idle" ELSE "play"

\* where voice_to_text / the full pipeline go once the transcript is there
AfterTranscribe(o) == IF o = "voice_to_text" THEN "Idle" ELSE "append_user"

\* where generate_response's caller goes once the reply is appended
AfterComplete(o) == IF o = "generate_response" THEN "Idle" ELSE "synthesize"

\* faulty variants of the handling of a raising collaborator
AfterRaise_Retries(p) == p
AfterRaise_Swallows(p) ==
  CASE p = "record" -> "transcribe"
    [] p = "transcribe" -> "append_user"
    [] OTHER -> "Idle"

\* where a call goes when a collaborator raises at position p: no
\* try/except anywhere, the exception leaves the entry point
AfterRaise(p) == "Idle"

\* faulty variant of the path of the synthesized audio
SpeechFilePath_PerEntryPoint(o) == IF o = "text_to_voice" THEN "voice.mp3" ELSE SpeechPath

\* speech_file_path = "output.mp3", in the full turn and in text_to_voice
SpeechFilePath(o) == SpeechPath

\* faulty variants of the value of a turn and of the text that is spoken
PlayResult_Answer(o, tr, ans) == IF o = "text_to_voice" THEN SpeechFilePath(o) ELSE ans
TurnSpeechInput_Transcript(tr, ans) == tr

\* return speech_file_path (text_to_voice) / return transcript.text (turn)
PlayResult(o, tr, ans) == IF o = "text_to_voice" THEN SpeechFilePath(o) ELSE tr

\* input=bot_answer
TurnSpeechInput(tr, ans) == ans

\* ---------------------------------------------------------------- Init
Init ==
  /\ history = InitialHistory(Protocol)
  /\ pc = "Idle"
  /\ op = None
  /\ outcome = "none"
  /\ failedAt = None
  /\ ret = None
  /\ hist0 = InitialHistory(Protocol)
  /\ durationSeconds = 0
  /\ sec = 0
  /\ captureMs = 0
  /\ clip = NoBytes
  /\ transcript = None
  /\ prompt = None
  /\ bot_answer = None
  /\ text = None
  /\ autoplay = TRUE
  /\ speech = NoBytes
  /\ disk = [q \in {} |-> NoBytes]
  /\ played = <<>>
  /\ calls = <<>>
  /\ sentMessages = <<>>
  /\ visited = <<>>
  /\ nCalls = 0
  /\ turnsOk = 0
  /\ turnsFailed = 0
  /\ completionsOk = 0
  /\ completionsFailed = 0
  /\ held = FALSE
  /\ gen = [t \in Threads |-> IdleCall]
  /\ rounds = 0

\* ------------------------------------------------------- call / return
\* A caller enters one of the entry points; the locals of the call start fresh.
Enter(o, first) ==
  /\ pc = "Idle"
  /\ nCalls < MaxCalls
  /\ nCalls' = nCalls + 1
  /\ op' = o
  /\ pc' = first
  /\ outcome' = "none"
  /\ failedAt' = None
  /\ ret' = None
  /\ hist0' = history
  /\ captureMs' = 0
  /\ clip' = NoBytes
  /\ transcript' = None
  /\ bot_answer' = None
  /\ speech' = NoBytes
  /\ calls' = <<>>
  /\ sentMessages' = <<>>
  /\ visited' = Visit(<<"Idle">>, "Idle", first)
  /\ UNCHANGED <<history, files, turnsOk, turnsFailed, completionsOk,
                 completionsFailed, held, conc>>

\* the running call moves on to position p
Goto(p) ==
  /\ pc' = p
  /\ visited' = Visit(visited, pc, p)
  /\ completionsOk' = IF pc = "complete" THEN completionsOk + 1 ELSE completionsOk
  /\ UNCHANGED <<op, outcome, failedAt, ret, counters, completionsFailed, held,
                 conc>>

\* the running call returns v to its caller
Return(v) ==
  /\ pc' = "Idle"
  /\ visited' = Visit(visited, pc, "Idle")
  /\ outcome' = "returned"
  /\ ret' = v
  /\ turnsOk' = IF IsTurn(op) THEN turnsOk + 1 ELSE turnsOk
  /\ completionsOk' = IF pc = "complete" THEN completionsOk + 1 ELSE completionsOk
  /\ UNCHANGED <<op, failedAt, nCalls, turnsFailed, completionsFailed, held,
                 conc>>

\* collaborator c raised: nothing catches it, the call ends with the error
Raise(c) ==
  /\ pc' = AfterRaise(pc)
  /\ visited' = Visit(visited, pc, AfterRaise(pc))
  /\ outcome' = "raised"
  /\ failedAt' = c
  /\ turnsFailed' = IF IsTurn(op) THEN turnsFailed + 1 ELSE turnsFailed
  /\ completionsFailed' =
        IF c = "complete" THEN completionsFailed + 1 ELSE completionsFailed
  /\ UNCHANGED <<op, ret, nCalls, turnsOk, completionsOk, held, conc>>

\* ------------------------------------------------------ entry points
\* ChatBot.generate_response(prompt)
CallGenerateResponse(p) ==
  /\ Enter("generate_response", "append_user")
  /\ prompt' = p
  /\ durationSeconds' = 0
  /\ sec' = 0
  /\ text' = None
  /\ autoplay' = TRUE

\* AudioProcessor.process_audio_and_generate_response(): the caller wants a
\* turn of d seconds, the method has no parameter to take it
CallProcessAudio(d) ==
  /\ Enter("process_audio_and_generate_response", "record")
  /\ durationSeconds' = d
  /\ sec' = TurnSec
  /\ prompt' = None
  /\ text' = None
  /\ autoplay' = TRUE

\* AudioProcessor.voice_to_text(sec)
CallVoiceToText(s) ==
  /\ Enter("voice_to_text", "record")
  /\ sec' = s
  /\ durationSeconds' = 0
  /\ prompt' = None
  /\ text' = None
  /\ autoplay' = TRUE

\* AudioProcessor.text_to_voice(text, autoplay)
CallTextToVoice(t, a) ==
  /\ Enter("text_to_voice", "synthesize")
  /\ text' = t
  /\ autoplay' = a
  /\ durationSeconds' = 0
  /\ sec' = 0
  /\ prompt' = None

\* ChatBot.get_history(): returns the list object itself
CallGetHistory ==
  /\ pc = "Idle"
  /\ nCalls < MaxCalls
  /\ nCalls' = nCalls + 1
  /\ op' = "get_history"
  /\ outcome' = "returned"
  /\ failedAt' = None
  /\ ret' = "self.history"
  /\ held' = TRUE
  /\ hist0' = history
  /\ calls' = <<>>
  /\ visited' = <<>>
  /\ UNCHANGED <<history, pc, durationSeconds, sec, captureMs, clip,
                 transcript, prompt, bot_answer, text, autoplay, speech,
                 files, sentMessages, turnsOk, turnsFailed, completionsOk,
                 completionsFailed, conc>>

\* ------------------------------------------------------------ record_audio
RecordOk(c) ==
  /\ pc = "record"
  /\ captureMs' = RecordArg(sec)
  /\ calls' = Append(calls, "capture")
  /\ clip' = DecodeCapture(DataUrl(c))
  /\ disk' = WriteFile(disk, AudioPath, DecodeCapture(DataUrl(c)))
  /\ Goto("transcribe")
  /\ UNCHANGED <<history, hist0, durationSeconds, sec, transcript, prompt,
                 bot_answer, text, autoplay, speech, played, sentMessages>>

RecordFail ==
  /\ pc = "record"
  /\ captureMs' = RecordArg(sec)
  /\ calls' = Append(calls, "capture")
  /\ Raise("capture")
  /\ UNCHANGED <<history, hist0, durationSeconds, sec, clip, transcript,
                 prompt, bot_answer, text, autoplay, speech, files,
                 sentMessages>>

\* ------------------------------------------- audio.transcriptions.create
TranscribeOk(t) ==
  /\ pc = "transcribe"
  /\ calls' = Append(calls, "transcribe")
  /\ transcript' = t
  /\ IF AfterTranscribe(op) = "Idle"
       THEN /\ Return(t)
            /\ UNCHANGED prompt
       ELSE /\ Goto(AfterTranscribe(op))
            /\ prompt' = t
  /\ UNCHANGED <<history, hist0, durationSeconds, sec, captureMs, clip,
                 bot_answer, text, autoplay, speech, files, sentMessages>>

TranscribeFail ==
  /\ pc = "transcribe"
  /\ calls' = Append(calls, "transcribe")
  /\ Raise("transcribe")
  /\ UNCHANGED <<history, hist0, durationSeconds, sec, captureMs, clip,
                 transcript, prompt, bot_answer, text, autoplay, speech,
                 files, sentMessages>>

\* ------------------------------------------------------ generate_response
AppendUser ==
  /\ pc = "append_user"
  /\ history' = WithUser(history, prompt)
  /\ Goto("complete")
  /\ UNCHANGED <<hist0, durationSeconds, sec, captureMs, clip, transcript,
                 prompt, bot_answer, text, autoplay, speech, files, calls,
                 sentMessages>>

CompleteOk(r) ==
  /\ pc = "complete"
  /\ calls' = Append(calls, "complete")
  /\ sentMessages' = CompletionMessages(history)
  /\ history' = WithAssistant(history, r)
  /\ bot_answer' = r
  /\ IF AfterComplete(op) = "Idle"
       THEN /\ Return(r)
            /\ UNCHANGED text
       ELSE /\ Goto(AfterComplete(op))
            /\ text' = TurnSpeechInput(transcript, r)
  /\ UNCHANGED <<hist0, durationSeconds, sec, captureMs, clip, transcript,
                 prompt, autoplay, speech, files>>

CompleteFail ==
  /\ pc = "complete"
  /\ calls' = Append(calls, "complete")
  /\ sentMessages' = CompletionMessages(history)
  /\ Raise("complete")
  /\ UNCHANGED <<history, hist0, durationSeconds, sec, captureMs, clip,
                 transcript, prompt, bot_answer, text, autoplay, speech,
                 files>>

\* ---------------------------------------------------- audio.speech.create
SynthesizeOk ==
  /\ pc = "synthesize"
  /\ calls' = Append(calls, "synthesize")
  /\ speech' = Synthesize(text)
  /\ Goto("write")
  /\ UNCHANGED <<history, hist0, durationSeconds, sec, captureMs, clip,
                 transcript, prompt, bot_answer, text, autoplay, files,
                 sentMessages>>

SynthesizeFail ==
  /\ pc = "synthesize"
  /\ calls' = Append(calls, "synthesize")
  /\ Raise("synthesize")
  /\ UNCHANGED <<history, hist0, durationSeconds, sec, captureMs, clip,
                 transcript, prompt, bot_answer, text, autoplay, speech,
                 files, sentMessages>>

\* ------------------------------------- response.write_to_file("output.mp3")
WriteOk ==
  /\ pc = "write"
  /\ disk' = WriteFile(disk, SpeechFilePath(op), speech)
  /\ Goto("play")
  /\ UNCHANGED <<history, hist0, durationSeconds, sec, captureMs, clip,
                 transcript, prompt, bot_answer, text, autoplay, speech,
                 played, calls, sentMessages>>

WriteFail ==
  /\ pc = "write"
  /\ Raise("write")
  /\ UNCHANGED <<history, hist0, durationSeconds, sec, captureMs, clip,
                 transcript, prompt, bot_answer, text, autoplay, speech,
                 files, calls, sentMessages>>

\* -------------------------------------------------------------- play_audio
PlayOk ==
  /\ pc = "play"
  /\ calls' = Append(calls, "play")
  /\ played' = << SpeechFilePath(op), autoplay >>
  /\ Return(PlayResult(op, transcript, bot_answer))
  /\ UNCHANGED <<history, hist0, durationSeconds, sec, captureMs, clip,
                 transcript, prompt, bot_answer, text, autoplay, speech,
                 disk, sentMessages>>

PlayFail ==
  /\ pc = "play"
  /\ calls' = Append(calls, "play")
  /\ Raise("play")
  /\ UNCHANGED <<history, hist0, durationSeconds, sec, captureMs, clip,
                 transcript, prompt, bot_answer, text, autoplay, speech,
                 files, sentMessages>>

\* ---------------------------------------------------------------- Next
Next ==
  \/ \E p \in Texts : CallGenerateResponse(p)
  \/ \E d \in Durations : CallProcessAudio(d)
  \/ \E s \in Durations : CallVoiceToText(s)
  \/ \E t \in Replies, a \in BOOLEAN : CallTextToVoice(t, a)
  \/ CallGetHistory
  \/ \E c \in Clips : RecordOk(c)
  \/ RecordFail
  \/ \E t \in Texts : TranscribeOk(t)
  \/ TranscribeFail
  \/ AppendUser
  \/ \E r \in Replies : CompleteOk(r)
  \/ CompleteFail
  \/ SynthesizeOk
  \/ SynthesizeFail
  \/ WriteOk
  \/ WriteFail
  \/ PlayOk
  \/ PlayFail

Spec == Init /\ [][Next]_vars

\* ------------------------------------------- the caller and the returned list
\* get_history returns self.history, not a copy: the list the caller holds
\* and the session's history are one object
Returned == history

ListOps == {"append", "pop", "clear"}

\* list.append(m) / list.pop() / list.clear() applied to the list l
ListOp(f, l, m) ==
  CASE f = "append" -> Append(l, m)
    [] f = "pop" -> SubSeq(l, 1, Len(l) - 1)
    [] f = "clear" -> <<>>

\* the caller of get_history uses the list it was handed
CallerMutatesReturned(f, m) ==
  /\ pc = "Idle"
  /\ held
  /\ nCalls < MaxCalls
  /\ f = "pop" => Len(history) > 0
  /\ nCalls' = nCalls + 1
  /\ op' = "caller"
  /\ outcome' = "returned"
  /\ failedAt' = None
  /\ ret' = None
  /\ hist0' = history
  /\ history' = ListOp(f, Returned, m)
  /\ calls' = <<>>
  /\ visited' = <<>>
  /\ UNCHANGED <<pc, durationSeconds, sec, captureMs, clip, transcript,
                 prompt, bot_answer, text, autoplay, speech, files,
                 sentMessages, turnsOk, turnsFailed, completionsOk,
                 completionsFailed, held, conc>>

NextAlias ==
  \/ Next
  \/ \E f \in ListOps : CallerMutatesReturned(f, Message("user", "Bye"))

SpecAlias == Init /\ [][NextAlias]_vars

\* ------------------------------- two overlapping generate_response calls
\* everything but the history and the two calls: the threads only run
\* generate_response
serial == <<pc, op, outcome, failedAt, ret, durationSeconds, sec, captureMs,
            clip, transcript, prompt, bot_answer, text, autoplay, speech,
            files, calls, sentMessages, visited, counters, completionsOk,
            completionsFailed, held>>

\* faulty variant: the append rebuilds the list from the one seen at entry
SharedList_Stale(now, atEntry) == atEntry

\* self.history.append works on the one list object as it is now, whatever
\* the other thread has appended meanwhile
SharedList(now, atEntry) == now

\* both threads call generate_response, neither waits for the other
ConcStart(p1, p2) ==
  /\ pc = "Idle"
  /\ rounds < MaxRounds
  /\ \A t \in Threads : gen[t].pc \in {"idle", "done", "failed"}
  /\ rounds' = rounds + 1
  /\ hist0' = history
  /\ gen' = [t \in Threads |->
               [IdleCall EXCEPT !.pc = "append_user",
                                !.prompt = IF t = 1 THEN p1 ELSE p2]]
  /\ UNCHANGED <<history, serial>>

\* line 53 in thread t: list.append is one indivisible step
ConcAppendUser(t) ==
  /\ gen[t].pc = "append_user"
  /\ history' = WithUser(SharedList(history, hist0), gen[t].prompt)
  /\ gen' = [gen EXCEPT ![t].pc = "complete", ![t].userAt = Len(history')]
  /\ UNCHANGED <<hist0, rounds, serial>>

\* lines 55-61 in thread t: the completion returns, the reply is appended
ConcCompleteOk(t, r) ==
  /\ gen[t].pc = "complete"
  /\ history' = WithAssistant(SharedList(history, hist0), r)
  /\ gen' = [gen EXCEPT ![t].pc = "done", ![t].reply = r,
                        ![t].asstAt = Len(history')]
  /\ UNCHANGED <<hist0, rounds, serial>>

\* lines 55-58 in thread t: the completion raises
ConcCompleteFail(t) ==
  /\ gen[t].pc = "complete"
  /\ gen' = [gen EXCEPT ![t].pc = "failed"]
  /\ UNCHANGED <<history, hist0, rounds, serial>>

NextConc ==
  \/ \E p1, p2 \in Texts : ConcStart(p1, p2)
  \/ \E t \in Threads : ConcAppendUser(t)
  \/ \E t \in Threads, r \in Replies : ConcCompleteOk(t, r)
  \/ \E t \in Threads : ConcCompleteFail(t)

SpecConc == Init /\ [][NextConc]_vars

\* ------------------------------------------------------------ properties
IsPrefix(a, b) == Len(a) <= Len(b) /\ SubSeq(b, 1, Len(a)) = a

Called(c) == \E i \in 1..Len(calls) : calls[i] = c

FullTurn == "process_audio_and_generate_response"

Pipeline ==
  <<"Idle", "Recording", "Transcribing", "Generating", "Synthesizing", "Playing">>

\* C1: in every reachable state the first element of the history is the
\* system message of session creation, and it is the only system message.
C1_SystemMessageFirst ==
  /\ Len(history) >= 1
  /\ history[1] = Message("system", Protocol)
  /\ \A i \in 2..Len(history) : history[i].role # "system"

C1_Witness ==
  /\ pc = "Idle"
  /\ turnsOk >= 1
  /\ turnsFailed >= 1
  /\ op = "text_to_voice"
  /\ Len(history) >= 4

\* C2: when the completion of a generate_response call succeeds, the history
\* is the history at entry followed by the user message and then the
\* assistant message, and the value returned is the reply.
C2_GenerateAppendsPair ==
  /\ (op = "generate_response" /\ outcome = "returned") =>
        /\ ret = bot_answer
        /\ history = hist0 \o << Message("user", prompt), Message("assistant", ret) >>
  /\ (op = FullTurn /\ Called("complete") /\ failedAt # "complete") =>
        /\ text = bot_answer
        /\ history = hist0 \o << Message("user", transcript), Message("assistant", text) >>

C2_Witness ==
  /\ op = "generate_response"
  /\ outcome = "returned"
  /\ hist0 = InitialHistory(Protocol)
  /\ prompt = "Hello"
  /\ ret = "Hi there"
  /\ history = << Message("system", Protocol), Message("user", "Hello"),
                  Message("assistant", "Hi there") >>

\* C3: between calls, when no generate call or full-pipeline turn has failed,
\* the history holds 1 + 2N messages, N the number of turns that returned.
C3_LengthAfterTurns ==
  (pc = "Idle" /\ turnsFailed = 0) => Len(history) = 1 + 2 * turnsOk

C3_Witness ==
  /\ pc = "Idle"
  /\ op = FullTurn
  /\ outcome = "returned"
  /\ turnsOk = 2
  /\ turnsFailed = 0
  /\ nCalls = 2
  /\ Len(history) = 5

\* C4: voice_to_text and text_to_voice never change the history and never
\* call the completion collaborator, whether they return or raise.
C4_ReducedEntryPointsFrame ==
  op \in {"voice_to_text", "text_to_voice"} =>
    /\ history = hist0
    /\ ~Called("complete")
    /\ sentMessages = <<>>

C4_Witness ==
  /\ op = "voice_to_text"
  /\ outcome = "returned"
  /\ ret \in Texts
  /\ Len(history) >= 3

\* C5: when the completion collaborator raises, the call ends with that
\* error and the history is the history at entry plus the user message only.
C5_CompletionFailureKeepsUser ==
  failedAt = "complete" =>
    /\ pc = "Idle"
    /\ outcome = "raised"
    /\ ret = None
    /\ history = Append(hist0, Message("user", prompt))
    /\ history[Len(history)].role = "user"

C5_Witness ==
  /\ op = "generate_response"
  /\ failedAt = "complete"
  /\ Len(hist0) >= 3
  /\ Len(history) = Len(hist0) + 1

\* C6: when synthesis, the write of its output or the playback fails in a
\* full-pipeline turn, the turn ends with the error and both messages of
\* the turn stay in the history.
C6_SynthesisFailureKeepsPair ==
  (op = FullTurn /\ failedAt \in {"synthesize", "write", "play"}) =>
    /\ pc = "Idle"
    /\ outcome = "raised"
    /\ ret = None
    /\ Len(history) = Len(hist0) + 2
    /\ IsPrefix(hist0, history)
    /\ history[Len(hist0) + 1] = Message("user", transcript)
    /\ history[Len(hist0) + 2] = Message("assistant", bot_answer)

C6_Witness ==
  /\ op = FullTurn
  /\ failedAt = "synthesize"
  /\ outcome = "raised"
  /\ Len(history) = 3

\* C7 (as stated): every full-pipeline turn, once over, has visited Idle,
\* Recording, Transcribing, Generating, Synthesizing, Playing, Idle.
C7_EveryTurnVisitsAllStates ==
  (op = FullTurn /\ pc = "Idle") => visited = Pipeline \o <<"Idle">>

\* C7 (amended): a full-pipeline turn visits the pipeline states in order,
\* each entered with the output of the one before it; a turn that returns
\* has visited all of them, a turn in which a collaborator raises has
\* visited them up to the failing state and is then back in Idle.
C7_TurnFollowsPipelineOrder ==
  op = FullTurn =>
    /\ outcome = "none" =>
          /\ Len(visited) \in 2..Len(Pipeline)
          /\ visited = SubSeq(Pipeline, 1, Len(visited))
          /\ visited[Len(visited)] = State(pc)
    /\ outcome = "returned" => visited = Pipeline \o <<"Idle">>
    /\ outcome = "raised" =>
          \E k \in 2..Len(Pipeline) : visited = SubSeq(Pipeline, 1, k) \o <<"Idle">>
    /\ State(pc) = "Recording" => calls = <<>>
    /\ State(pc) = "Transcribing" =>
          /\ calls = <<"capture">>
          /\ clip # NoBytes /\ audio_wav = clip
    /\ State(pc) = "Generating" =>
          /\ calls = <<"capture", "transcribe">>
          /\ transcript \in Texts /\ prompt = transcript
    /\ State(pc) = "Synthesizing" =>
          /\ SubSeq(calls, 1, 3) = <<"capture", "transcribe", "complete">>
          /\ bot_answer \in Replies /\ text = bot_answer
    /\ State(pc) = "Playing" =>
          /\ calls = <<"capture", "transcribe", "complete", "synthesize">>
          /\ speech = Synthesize(bot_answer) /\ output_mp3 = speech

C7_Witness ==
  /\ op = FullTurn
  /\ outcome = "returned"
  /\ visited = <<"Idle", "Recording", "Transcribing", "Generating",
                 "Synthesizing", "Playing", "Idle">>
  /\ calls = <<"capture", "transcribe", "complete", "synthesize", "play">>

\* C8 (as stated): the capture of a full-pipeline turn is requested for the
\* duration the caller of the turn asked for.
C8_TurnCapturesRequestedDuration ==
  (op = FullTurn /\ Called("capture")) => captureMs = durationSeconds * 1000

\* C8 (amended): a full-pipeline turn takes no duration and always requests
\* a capture of the default 3 seconds, whatever its caller wants; it is
\* voice_to_text(sec) that requests a capture of exactly sec seconds.
C8_TurnCapturesDefaultDuration ==
  /\ (op = FullTurn /\ Called("capture")) => captureMs = 3000
  /\ (op = "voice_to_text" /\ Called("capture")) => captureMs = sec * 1000

C8_Witness ==
  /\ op = FullTurn
  /\ Called("capture")
  /\ durationSeconds = 1
  /\ captureMs = 3000

\* C9: the messages handed to the completion collaborator are the whole
\* history of that moment: everything that was there when the call was
\* entered, in order, followed by the user message just appended.
C9_CompletionGetsWholeHistory ==
  Called("complete") =>
    /\ sentMessages = Append(hist0, Message("user", prompt))
    /\ sentMessages[1] = Message("system", Protocol)
    /\ IsPrefix(sentMessages, history)

C9_Witness ==
  /\ Called("complete")
  /\ Len(hist0) = 4
  /\ Len(sentMessages) = 5
  /\ sentMessages[2].role = "user" /\ sentMessages[3].role = "user"

\* C10: the history is append-only: every step leaves the history it found
\* as a prefix of the history it produces.
C10_AppendOnly == [][IsPrefix(history, history')]_vars

C10_Witness ==
  /\ pc = "Idle"
  /\ op = "get_history"
  /\ turnsOk = 1
  /\ turnsFailed = 1
  /\ Len(history) = 4

\* C11: get_history hands out the whole history in order, and nothing the
\* caller does with the value it got changes the history of the session.
C11_SnapshotReadOnly ==
  /\ op = "get_history" => Returned = hist0
  /\ op = "caller" => history = hist0

Role(i) == history[i].role

\* C13 (as stated): after the system message the history is made of
\* user-then-assistant pairs, so no two neighbours have the same role.
C13_StrictPairs ==
  /\ Len(history) >= 1 /\ Role(1) = "system"
  /\ \A i \in 2..(Len(history) - 1) : Role(i) # Role(i + 1)

\* C13 (amended): after the system message come user and assistant messages
\* only, every assistant message directly follows a user message, and there
\* are at most as many adjacent user-user pairs as completions that failed;
\* between calls, while no completion has failed, the messages are strict
\* user-then-assistant pairs.
C13_AssistantFollowsUser ==
  /\ Len(history) >= 1 /\ Role(1) = "system"
  /\ \A i \in 2..Len(history) : Role(i) \in {"user", "assistant"}
  /\ \A i \in 2..Len(history) : Role(i) = "assistant" => Role(i - 1) = "user"
  /\ Cardinality({i \in 2..(Len(history) - 1) :
                    Role(i) = "user" /\ Role(i + 1) = "user"}) <= completionsFailed
  /\ (pc = "Idle" /\ completionsFailed = 0) =>
        \A i \in 2..Len(history) :
          Role(i) = IF i % 2 = 0 THEN "user" ELSE "assistant"

C13_Witness ==
  /\ pc = "Idle"
  /\ completionsFailed = 1
  /\ Len(history) = 4
  /\ Role(2) = "user" /\ Role(3) = "user" /\ Role(4) = "assistant"

CollaboratorOrder == <<"capture", "transcribe", "complete", "synthesize", "play">>

\* C14: no collaborator is called twice in one call; a full-pipeline turn
\* calls them in pipeline order, and once one of them has raised the turn is
\* over with that error: the failing call is the last call of the turn.
C14_NoRetry ==
  /\ \A i, j \in 1..Len(calls) : i # j => calls[i] # calls[j]
  /\ op = FullTurn =>
        /\ IsPrefix(calls, CollaboratorOrder)
        /\ failedAt # None =>
              /\ pc = "Idle"
              /\ outcome = "raised"
              /\ ret = None
              /\ calls[Len(calls)] = IF failedAt = "write" THEN "synthesize" ELSE failedAt

C14_Witness ==
  /\ op = FullTurn
  /\ failedAt = "complete"
  /\ outcome = "raised"
  /\ calls = <<"capture", "transcribe", "complete">>

\* the synthesized-audio artifacts on local storage
SpeechFiles == DOMAIN disk \ {"audio.wav"}

C16_SynthesisSpeaksReply ==
  (op = FullTurn /\ (pc = "synthesize" \/ Called("synthesize"))) =>
    /\ text = bot_answer
    /\ text \in Replies
    /\ Called("complete")
    /\ Len(history) = Len(hist0) + 2
    /\ history[Len(history)] = Message("assistant", text)
    /\ speech # NoBytes => speech = << "alloy", bot_answer >>

C16_Witness ==
  /\ op = FullTurn
  /\ pc = "write"
  /\ calls = <<"capture", "transcribe", "complete", "synthesize">>
  /\ speech = << "alloy", "Sure" >>
  /\ history[Len(history)] = Message("assistant", "Sure")

\* C17: when capture or transcription fails in a full-pipeline turn, the
\* history is what it was before the turn and neither the completion nor
\* the synthesis collaborator has been called.
C17_EarlyFailureLeavesHistory ==
  (op = FullTurn /\ failedAt \in {"capture", "transcribe"}) =>
    /\ outcome = "raised"
    /\ pc = "Idle"
    /\ history = hist0
    /\ ~Called("complete")
    /\ ~Called("synthesize")
    /\ sentMessages = <<>>
    /\ speech = NoBytes

C17_Witness ==
  /\ op = FullTurn
  /\ failedAt = "transcribe"
  /\ calls = <<"capture", "transcribe">>
  /\ Len(history) = 3

Count(h, r) == Cardinality({i \in 1..Len(h) : h[i].role = r})

\* the user message of a generate_response call whose completion is pending
Pending == IF pc = "complete" THEN 1 ELSE 0

\* C18: with S completions returned and F completions raised so far, the
\* history holds 1 + 2S + F messages, S + F of them user messages and S
\* assistant messages (plus the user message of a call in progress), and
\* each completion call is sent all of them: what was there when the call
\* was entered, user messages of failed calls included.
C18_CompletionCounts ==
  /\ Len(history) = 1 + 2 * completionsOk + completionsFailed + Pending
  /\ Count(history, "user") = completionsOk + completionsFailed + Pending
  /\ Count(history, "assistant") = completionsOk
  /\ Called("complete") =>
        /\ IsPrefix(hist0, sentMessages)
        /\ Count(sentMessages, "user") = completionsOk + completionsFailed
        /\ Count(sentMessages, "assistant") =
              IF failedAt = "complete" THEN completionsOk ELSE completionsOk - 1

C18_Witness ==
  /\ pc = "Idle"
  /\ op = "generate_response"
  /\ outcome = "returned"
  /\ completionsOk = 1
  /\ completionsFailed = 2
  /\ Len(history) = 5
  /\ Len(sentMessages) = 4
  /\ \A i \in 2..4 : sentMessages[i].role = "user"

BothDone == \A t \in Threads : gen[t].pc = "done"

\* C19: when two overlapping generate_response calls have both returned,
\* the history is the history from before them plus four messages, two
\* user and two assistant; each call finds its own user message and, later
\* in the list, its own assistant message where it appended them.
C19_NoAppendLost ==
  BothDone =>
    /\ Len(history) = Len(hist0) + 4
    /\ IsPrefix(hist0, history)
    /\ Count(history, "user") = Count(hist0, "user") + 2
    /\ Count(history, "assistant") = Count(hist0, "assistant") + 2
    /\ \A t \in Threads :
          /\ Len(hist0) < gen[t].userAt
          /\ gen[t].userAt < gen[t].asstAt
          /\ gen[t].asstAt <= Len(history)
          /\ history[gen[t].userAt] = Message("user", gen[t].prompt)
          /\ history[gen[t].asstAt] = Message("assistant", gen[t].reply)
    /\ {gen[1].userAt, gen[1].asstAt} \cap {gen[2].userAt, gen[2].asstAt} = {}

C19_Witness ==
  /\ BothDone
  /\ rounds = 2
  /\ Len(hist0) >= 4
  /\ gen[1].userAt < gen[2].userAt
  /\ gen[2].userAt < gen[1].asstAt
  /\ gen[1].asstAt < gen[2].asstAt

====
